---------------------------- MODULE Spec2Model ----------------------------
(***************************************************************************)
(* Model of the two batch jobs of addiction_nexus:                         *)
(*   generate_snowflake_ttl.py  CSV rows -> tbox.ttl + abox.ttl            *)
(*   QueryBenchmark.py          tbox.ttl + abox.ttl -> timed query runs    *)
(*                                                                         *)
(* RDF nodes.  A URI is a pair <<name, n>>: an instance URI                *)
(* MH['user/3'] is <<"user", 3>>, a vocabulary term MH.Person is           *)
(* <<"mh:Person", 0>>.  A literal is a triple <<"lit", lexical, datatype>> *)
(* (datatype "" for a plain literal).  A graph is a set of triples         *)
(* <<s, p, o>>, as rdflib's Graph is.                                      *)
(***************************************************************************)
EXTENDS Integers, Sequences, FiniteSets, TLC

\* ------------------------------------------------------------------ bounds
\* Rows of the DataFrame iterated by one generation run.
MaxRows == 3
\* User_ID values range over 1..MaxUserId.
MaxUserId == 2
\* Rows of the datasets whose generated files the benchmark job loads.
MaxBenchRows == 2

\* ------------------------------------------------------------------- nodes
U(kind, n) == <<kind, n>>
Term(name) == <<name, 0>>

\* rdflib Literal(value): a plain literal.
PlainLiteral(value) == <<"lit", value, "">>
\* rdflib Literal(value, datatype=dt): no validation of the lexical form is
\* performed by the generator; the cell is wrapped whatever it holds.
TypedLiteral(value, dt) == <<"lit", value, dt>>

IsLiteral(node) == Len(node) = 3
Datatype(lit) == lit[3]

RDF_type == Term("rdf:type")
RDFS_label == Term("rdfs:label")
RDFS_comment == Term("rdfs:comment")
RDFS_domain == Term("rdfs:domain")
RDFS_range == Term("rdfs:range")
OWL_Class == Term("owl:Class")
OWL_DatatypeProperty == Term("owl:DatatypeProperty")
OWL_ObjectProperty == Term("owl:ObjectProperty")
OWL_sameAs == Term("owl:sameAs")
OWL_equivalentProperty == Term("owl:equivalentProperty")
QB_DataStructureDefinition == Term("qb:DataStructureDefinition")
QB_measure == Term("qb:measure")
SKOS_ConceptScheme == Term("skos:ConceptScheme")
SKOS_inScheme == Term("skos:inScheme")
SKOS_prefLabel == Term("skos:prefLabel")
XSD_integer == "xsd:integer"
XSD_float == "xsd:float"
ex_hasMeasurement == Term("ex:hasMeasurement")

\* Declaration of one class with label and comment.
ClassDecl(name, label, comment) ==
    { <<Term(name), RDF_type, OWL_Class>>,
      <<Term(name), RDFS_label, <<"lit", label, "@en">> >>,
      <<Term(name), RDFS_comment, PlainLiteral(comment)>> }

\* Declaration of one property: kind, domain, range.
PropDecl(p, kind, dom, rng) ==
    { <<p, RDF_type, kind>>, <<p, RDFS_domain, Term(dom)>>,
      <<p, RDFS_range, Term(rng)>> }

\* The schema graph built by the tbox.add calls.
TBox ==
    ClassDecl("mh:Person", "Person",
              "Represents an individual with demographic attributes.")
    \cup ClassDecl("mh:MentalHealth", "Mental Health",
                   "Captures mental health condition details.")
    \cup ClassDecl("mh:Lifestyle", "Lifestyle",
                   "Captures lifestyle factors like diet, smoking.")
    \cup { <<Term(c), RDF_type, OWL_Class>> :
             c \in { "mh:Gender", "mh:Occupation", "mh:Country", "mh:Severity",
                     "mh:Consultation", "mh:StressLevel", "mh:Medication",
                     "mh:DietQuality", "mh:SmokingHabit",
                     "mh:AlcoholConsumption" } }
    \cup { <<Term("mh:Measurement"), RDF_type, QB_DataStructureDefinition>>,
           <<Term("mh:Measurement"), RDFS_label, <<"lit", "Measurement", "@en">> >>,
           <<Term("mh:Measurement"), RDFS_comment,
             PlainLiteral("Multidimensional measurements for OLAP.")>>,
           <<Term("mh:CountryHierarchy"), RDF_type, SKOS_ConceptScheme>>,
           <<Term("mh:CountryHierarchy"), RDFS_label,
             PlainLiteral("Country Hierarchy")>>,
           <<Term("mh:Country"), SKOS_inScheme, Term("mh:CountryHierarchy")>>,
           <<Term("mh:SeverityHierarchy"), RDF_type, SKOS_ConceptScheme>>,
           <<Term("mh:Severity"), SKOS_inScheme, Term("mh:SeverityHierarchy")>> }
    \cup PropDecl(Term("mh:hasAge"), OWL_DatatypeProperty, "mh:Person", XSD_integer)
    \cup PropDecl(Term("mh:hasGender"), OWL_ObjectProperty, "mh:Person", "mh:Gender")
    \cup PropDecl(Term("mh:hasOccupation"), OWL_ObjectProperty, "mh:Person",
                  "mh:Occupation")
    \cup PropDecl(Term("mh:hasCountry"), OWL_ObjectProperty, "mh:Person", "mh:Country")
    \cup { <<Term("mh:hasCountry"), OWL_equivalentProperty, Term("wd:P17")>> }
    \cup PropDecl(Term("mh:hasMentalHealth"), OWL_ObjectProperty, "mh:Person",
                  "mh:MentalHealth")
    \cup PropDecl(Term("mh:hasSeverity"), OWL_ObjectProperty, "mh:MentalHealth",
                  "mh:Severity")
    \cup PropDecl(Term("mh:hasConsultationHistory"), OWL_ObjectProperty,
                  "mh:MentalHealth", "mh:Consultation")
    \cup PropDecl(Term("mh:hasStressLevel"), OWL_ObjectProperty, "mh:MentalHealth",
                  "mh:StressLevel")
    \cup PropDecl(Term("mh:hasMedicationUsage"), OWL_ObjectProperty,
                  "mh:MentalHealth", "mh:Medication")
    \cup PropDecl(Term("mh:hasLifestyle"), OWL_ObjectProperty, "mh:Person",
                  "mh:Lifestyle")
    \cup PropDecl(Term("mh:hasDietQuality"), OWL_ObjectProperty, "mh:Lifestyle",
                  "mh:DietQuality")
    \cup PropDecl(Term("mh:hasSmokingHabit"), OWL_ObjectProperty, "mh:Lifestyle",
                  "mh:SmokingHabit")
    \cup PropDecl(Term("mh:hasAlcoholConsumption"), OWL_ObjectProperty,
                  "mh:Lifestyle", "mh:AlcoholConsumption")
    \cup PropDecl(Term("mh:hasSleepHours"), OWL_DatatypeProperty, "mh:Measurement",
                  XSD_float)
    \cup { <<Term("mh:hasSleepHours"), QB_measure, PlainLiteral("Sleep Hours")>> }
    \cup PropDecl(Term("mh:hasWorkHours"), OWL_DatatypeProperty, "mh:Measurement",
                  XSD_integer)
    \cup { <<Term("mh:hasWorkHours"), QB_measure, PlainLiteral("Work Hours")>> }
    \cup PropDecl(Term("mh:hasPhysicalActivityHours"), OWL_DatatypeProperty,
                  "mh:Measurement", XSD_integer)
    \cup { <<Term("mh:hasPhysicalActivityHours"), QB_measure,
             PlainLiteral("Physical Activity Hours")>> }
    \cup PropDecl(Term("mh:hasSocialMediaUsage"), OWL_DatatypeProperty,
                  "mh:Measurement", XSD_float)
    \cup { <<Term("mh:hasSocialMediaUsage"), QB_measure,
             PlainLiteral("Social Media Usage")>> }
    \cup PropDecl(ex_hasMeasurement, OWL_ObjectProperty, "mh:Person",
                  "mh:Measurement")


\* ------------------------------------------------------------- input rows
\* Column names the generator reads from each row.
AllColumns ==
    { "User_ID", "Age", "Gender", "Occupation", "Country",
      "Mental_Health_Condition", "Severity", "Consultation_History",
      "Stress_Level", "Medication_Usage", "Diet_Quality", "Smoking_Habit",
      "Alcohol_Consumption", "Sleep_Hours", "Work_Hours",
      "Physical_Activity_Hours", "Social_Media_Usage" }

\* Lexical forms that are valid for the declared datatypes.  Numeric cells
\* are carried by their lexical form; "nan" is what a missing cell reads as.
IntegerLexicals == { "30", "45", "40", "55", "5", "2", "7" }
FloatLexicals == { "7.0", "6.5", "8.0", "2.5", "4.0", "1.5" }

WellFormed(lexical, dt) ==
    IF dt = XSD_integer THEN lexical \in IntegerLexicals
    ELSE IF dt = XSD_float THEN lexical \in FloatLexicals
    ELSE TRUE

\* The cell contents rows are drawn from (User_ID is filled in by Rows).
SampleRows ==
    { [ User_ID |-> 0, Age |-> "30", Gender |-> "Male", Occupation |-> "IT",
        Country |-> "USA", Mental_Health_Condition |-> "Anxiety",
        Severity |-> "Medium", Consultation_History |-> "Yes",
        Stress_Level |-> "High", Medication_Usage |-> "Yes",
        Diet_Quality |-> "Healthy", Smoking_Habit |-> "Non-Smoker",
        Alcohol_Consumption |-> "Social", Sleep_Hours |-> "7.0",
        Work_Hours |-> "40", Physical_Activity_Hours |-> "5",
        Social_Media_Usage |-> "2.5" ],
      [ User_ID |-> 0, Age |-> "45", Gender |-> "Female", Occupation |-> "IT",
        Country |-> "India", Mental_Health_Condition |-> "Depression",
        Severity |-> "Low", Consultation_History |-> "No",
        Stress_Level |-> "Low", Medication_Usage |-> "No",
        Diet_Quality |-> "Average", Smoking_Habit |-> "Non-Smoker",
        Alcohol_Consumption |-> "Regular", Sleep_Hours |-> "6.5",
        Work_Hours |-> "55", Physical_Activity_Hours |-> "2",
        Social_Media_Usage |-> "4.0" ],
      [ User_ID |-> 0, Age |-> "30", Gender |-> "Male",
        Occupation |-> "Healthcare", Country |-> "Australia",
        Mental_Health_Condition |-> "Anxiety", Severity |-> "Medium",
        Consultation_History |-> "No", Stress_Level |-> "High",
        Medication_Usage |-> "No", Diet_Quality |-> "Healthy",
        Smoking_Habit |-> "Regular Smoker", Alcohol_Consumption |-> "Social",
        Sleep_Hours |-> "8.0", Work_Hours |-> "40",
        Physical_Activity_Hours |-> "7", Social_Media_Usage |-> "1.5" ],
      [ User_ID |-> 0, Age |-> "abc", Gender |-> "Other", Occupation |-> "IT",
        Country |-> "Other", Mental_Health_Condition |-> "Depression",
        Severity |-> "High", Consultation_History |-> "No",
        Stress_Level |-> "High", Medication_Usage |-> "No",
        Diet_Quality |-> "Average", Smoking_Habit |-> "Non-Smoker",
        Alcohol_Consumption |-> "Non-Drinker", Sleep_Hours |-> "nan",
        Work_Hours |-> "4o", Physical_Activity_Hours |-> "nan",
        Social_Media_Usage |-> "x.y" ] }

\* Every row a DataFrame may hold: sample cells under any User_ID
\* (identifiers may repeat between rows; the loader does not reject that).
Rows == { [ r EXCEPT !.User_ID = u ] : r \in SampleRows, u \in 1..MaxUserId }

\* A row has a numeric cell that is not a valid lexical of its column type.
BadNumeric(row) ==
    \/ ~WellFormed(row.Age, XSD_integer)
    \/ ~WellFormed(row.Sleep_Hours, XSD_float)
    \/ ~WellFormed(row.Work_Hours, XSD_integer)
    \/ ~WellFormed(row.Physical_Activity_Hours, XSD_integer)
    \/ ~WellFormed(row.Social_Media_Usage, XSD_float)

\* ------------------------------------------------------ generator: one row
EmptyMap == [ v \in {} |-> 0 ]

\* Variant: the membership test is dropped and the value is always given
\* the next identifier.
NormalizeMap_Reassign(map, value) ==
    [ v \in DOMAIN map \cup {value} |->
        IF v = value THEN Cardinality(DOMAIN map) + 1 ELSE map[v] ]

\* Variant: identifiers are len(map), counted from 0.
NormalizeMap_ZeroBased(map, value) ==
    IF value \in DOMAIN map THEN map
    ELSE [ v \in DOMAIN map \cup {value} |->
             IF v \in DOMAIN map THEN map[v] ELSE Cardinality(DOMAIN map) ]

\* if value not in map: map[value] = len(map) + 1
NormalizeMap(map, value) ==
    IF value \in DOMAIN map THEN map
    ELSE [ v \in DOMAIN map \cup {value} |->
             IF v \in DOMAIN map THEN map[v] ELSE Cardinality(DOMAIN map) + 1 ]

\* Variant: the entity's type and label are added on every occurrence.
DimensionTriples_AlwaysDescribe(map, value, kind, class, parent, prop) ==
    LET linked == U(kind, NormalizeMap(map, value)[value])
    IN  { <<linked, RDF_type, Term(class)>>,
          <<linked, SKOS_prefLabel, PlainLiteral(value)>>,
          <<parent, prop, linked>> }

\* Triples one normalized-dimension block adds: on a value not yet in the
\* map the entity's type and label, and always the link from the parent.
DimensionTriples(map, value, kind, class, parent, prop) ==
    LET newId == Cardinality(DOMAIN map) + 1
        newUri == U(kind, newId)
        linked == U(kind, NormalizeMap(map, value)[value])
    IN  (IF value \notin DOMAIN map
         THEN { <<newUri, RDF_type, Term(class)>>,
                <<newUri, SKOS_prefLabel, PlainLiteral(value)>> }
         ELSE {})
        \cup { <<parent, prop, linked>> }

\* country_wd_map: names with a Wikidata entity ('Other' maps to None).
country_wd_map ==
    [ c \in { "Australia", "USA", "India", "UK", "Canada", "Germany" } |->
        CASE c = "Australia" -> Term("wd:Q408")
          [] c = "USA" -> Term("wd:Q30")
          [] c = "India" -> Term("wd:Q668")
          [] c = "UK" -> Term("wd:Q145")
          [] c = "Canada" -> Term("wd:Q16")
          [] c = "Germany" -> Term("wd:Q183") ]

\* The owl:sameAs triple added inside the first-occurrence branch of Country.
CountrySameAs(map, value) ==
    IF value \notin DOMAIN map /\ value \in DOMAIN country_wd_map
    THEN { <<U("country", Cardinality(DOMAIN map) + 1), OWL_sameAs,
             country_wd_map[value]>> }
    ELSE {}

\* Person instance: type and age.
PersonTriples(row) ==
    LET user_uri == U("user", row.User_ID)
    IN  { <<user_uri, RDF_type, Term("mh:Person")>>,
          <<user_uri, Term("mh:hasAge"), TypedLiteral(row.Age, XSD_integer)>> }

\* Variant: the instance is named after the user, as the measurement is.
MentalHealthTriples_ByUser(row, counter) ==
    LET user_uri == U("user", row.User_ID)
        mh_uri == U("mental_health", row.User_ID)
    IN  { <<mh_uri, RDF_type, Term("mh:MentalHealth")>>,
          <<mh_uri, RDFS_label, PlainLiteral(row.Mental_Health_Condition)>>,
          <<user_uri, Term("mh:hasMentalHealth"), mh_uri>> }

\* Variant: the label triple is left out.
MentalHealthTriples_NoLabel(row, counter) ==
    LET user_uri == U("user", row.User_ID)
        mh_uri == U("mental_health", counter)
    IN  { <<mh_uri, RDF_type, Term("mh:MentalHealth")>>,
          <<user_uri, Term("mh:hasMentalHealth"), mh_uri>> }

\* Mental Health instance: type, label, link from the person.
MentalHealthTriples(row, counter) ==
    LET user_uri == U("user", row.User_ID)
        mh_uri == U("mental_health", counter)
    IN  { <<mh_uri, RDF_type, Term("mh:MentalHealth")>>,
          <<mh_uri, RDFS_label, PlainLiteral(row.Mental_Health_Condition)>>,
          <<user_uri, Term("mh:hasMentalHealth"), mh_uri>> }

\* Lifestyle instance: type and link from the person (no label is added).
LifestyleTriples(row, counter) ==
    LET user_uri == U("user", row.User_ID)
        ls_uri == U("lifestyle", counter)
    IN  { <<ls_uri, RDF_type, Term("mh:Lifestyle")>>,
          <<user_uri, Term("mh:hasLifestyle"), ls_uri>> }

\* Variant: the social-media fact is left out.
MeasurementTriples_ThreeFacts(row) ==
    LET user_uri == U("user", row.User_ID)
        meas_uri == U("measurement", row.User_ID)
    IN  { <<meas_uri, RDF_type, Term("mh:Measurement")>>,
          <<meas_uri, Term("mh:hasSleepHours"),
            TypedLiteral(row.Sleep_Hours, XSD_float)>>,
          <<meas_uri, Term("mh:hasWorkHours"),
            TypedLiteral(row.Work_Hours, XSD_integer)>>,
          <<meas_uri, Term("mh:hasPhysicalActivityHours"),
            TypedLiteral(row.Physical_Activity_Hours, XSD_integer)>>,
          <<user_uri, ex_hasMeasurement, meas_uri>> }

\* Measurement instance: type, four facts, link from the person.
MeasurementTriples(row) ==
    LET user_uri == U("user", row.User_ID)
        meas_uri == U("measurement", row.User_ID)
    IN  { <<meas_uri, RDF_type, Term("mh:Measurement")>>,
          <<meas_uri, Term("mh:hasSleepHours"),
            TypedLiteral(row.Sleep_Hours, XSD_float)>>,
          <<meas_uri, Term("mh:hasWorkHours"),
            TypedLiteral(row.Work_Hours, XSD_integer)>>,
          <<meas_uri, Term("mh:hasPhysicalActivityHours"),
            TypedLiteral(row.Physical_Activity_Hours, XSD_integer)>>,
          <<meas_uri, Term("mh:hasSocialMediaUsage"),
            TypedLiteral(row.Social_Media_Usage, XSD_float)>>,
          <<user_uri, ex_hasMeasurement, meas_uri>> }

\* State of the generator before the row loop.
GenStart ==
    [ abox |-> {}, added |-> {},
      gender_map |-> EmptyMap, occupation_map |-> EmptyMap,
      country_map |-> EmptyMap, severity_map |-> EmptyMap,
      consultation_map |-> EmptyMap, stress_map |-> EmptyMap,
      medication_map |-> EmptyMap, diet_map |-> EmptyMap,
      smoking_map |-> EmptyMap, alcohol_map |-> EmptyMap,
      mental_health_counter |-> 1, lifestyle_counter |-> 1 ]

\* One iteration of the row loop: st is the state before, the result the
\* state after; added is the set of triples passed to abox.add.
RowStep(st, row) ==
    LET user_uri == U("user", row.User_ID)
        mh_uri == U("mental_health", st.mental_health_counter)
        ls_uri == U("lifestyle", st.lifestyle_counter)
        added ==
            PersonTriples(row)
            \cup DimensionTriples(st.gender_map, row.Gender, "gender",
                                  "mh:Gender", user_uri, Term("mh:hasGender"))
            \cup DimensionTriples(st.occupation_map, row.Occupation,
                                  "occupation", "mh:Occupation", user_uri,
                                  Term("mh:hasOccupation"))
            \cup DimensionTriples(st.country_map, row.Country, "country",
                                  "mh:Country", user_uri, Term("mh:hasCountry"))
            \cup CountrySameAs(st.country_map, row.Country)
            \cup MentalHealthTriples(row, st.mental_health_counter)
            \cup DimensionTriples(st.severity_map, row.Severity, "severity",
                                  "mh:Severity", mh_uri, Term("mh:hasSeverity"))
            \cup DimensionTriples(st.consultation_map, row.Consultation_History,
                                  "consultation", "mh:Consultation", mh_uri,
                                  Term("mh:hasConsultationHistory"))
            \cup DimensionTriples(st.stress_map, row.Stress_Level, "stress",
                                  "mh:StressLevel", mh_uri,
                                  Term("mh:hasStressLevel"))
            \cup DimensionTriples(st.medication_map, row.Medication_Usage,
                                  "medication", "mh:Medication", mh_uri,
                                  Term("mh:hasMedicationUsage"))
            \cup LifestyleTriples(row, st.lifestyle_counter)
            \cup DimensionTriples(st.diet_map, row.Diet_Quality, "diet",
                                  "mh:DietQuality", ls_uri,
                                  Term("mh:hasDietQuality"))
            \cup DimensionTriples(st.smoking_map, row.Smoking_Habit, "smoking",
                                  "mh:SmokingHabit", ls_uri,
                                  Term("mh:hasSmokingHabit"))
            \cup DimensionTriples(st.alcohol_map, row.Alcohol_Consumption,
                                  "alcohol", "mh:AlcoholConsumption", ls_uri,
                                  Term("mh:hasAlcoholConsumption"))
            \cup MeasurementTriples(row)
    IN  [ abox |-> st.abox \cup added, added |-> added,
          gender_map |-> NormalizeMap(st.gender_map, row.Gender),
          occupation_map |-> NormalizeMap(st.occupation_map, row.Occupation),
          country_map |-> NormalizeMap(st.country_map, row.Country),
          severity_map |-> NormalizeMap(st.severity_map, row.Severity),
          consultation_map |->
              NormalizeMap(st.consultation_map, row.Consultation_History),
          stress_map |-> NormalizeMap(st.stress_map, row.Stress_Level),
          medication_map |->
              NormalizeMap(st.medication_map, row.Medication_Usage),
          diet_map |-> NormalizeMap(st.diet_map, row.Diet_Quality),
          smoking_map |-> NormalizeMap(st.smoking_map, row.Smoking_Habit),
          alcohol_map |-> NormalizeMap(st.alcohol_map, row.Alcohol_Consumption),
          mental_health_counter |-> st.mental_health_counter + 1,
          lifestyle_counter |-> st.lifestyle_counter + 1 ]

\* The whole loop over a DataFrame given as a sequence of rows.
RECURSIVE Generate(_)
Generate(rows) ==
    IF rows = <<>> THEN GenStart
    ELSE RowStep(Generate(SubSeq(rows, 1, Len(rows) - 1)), rows[Len(rows)])

\* ------------------------------------------------------------------- state
VARIABLES
    pc,                    \* generator position: read_csv, build_tbox,
                           \* save_tbox, rows, done, aborted
    input_file,            \* the CSV on disk: ok, missing, unparseable
    columns,               \* column names of the loaded DataFrame
    df,                    \* rows the loop has iterated so far, in order
    error,                 \* exception that ended the run ("" if none)
    tbox, abox,            \* the two in-memory graphs
    gender_map, occupation_map, country_map, severity_map, consultation_map,
    stress_map, medication_map, diet_map, smoking_map, alcohol_map,
    mental_health_counter, lifestyle_counter,
    emitted,               \* per iterated row, the triples passed to abox.add
    tbox_ttl, abox_ttl,    \* the output files
    bpc,                   \* benchmark position
    g, sub_g,              \* loaded graph, current subsampled graph
    benchmarks_full, benchmarks, scalability_results,
    size_idx, query_idx,   \* loop positions over sizes and queries
    clock,                 \* time.time()
    executions             \* every graph.query call made, in order

genVars ==
    << pc, input_file, columns, df, error, tbox, abox, gender_map,
       occupation_map, country_map, severity_map, consultation_map,
       stress_map, medication_map, diet_map, smoking_map, alcohol_map,
       mental_health_counter, lifestyle_counter, emitted, tbox_ttl, abox_ttl >>

benchVars ==
    << bpc, g, sub_g, benchmarks_full, benchmarks, scalability_results,
       size_idx, query_idx, clock, executions >>

vars == << genVars, benchVars >>

\* A file that has not been written / a file holding a serialized graph.
NoFile == [ written |-> FALSE, triples |-> {} ]
Serialized(graph) == [ written |-> TRUE, triples |-> graph ]

\* The generator's loop state as a record, for RowStep.
GenState ==
    [ abox |-> abox, added |-> {},
      gender_map |-> gender_map, occupation_map |-> occupation_map,
      country_map |-> country_map, severity_map |-> severity_map,
      consultation_map |-> consultation_map, stress_map |-> stress_map,
      medication_map |-> medication_map, diet_map |-> diet_map,
      smoking_map |-> smoking_map, alcohol_map |-> alcohol_map,
      mental_health_counter |-> mental_health_counter,
      lifestyle_counter |-> lifestyle_counter ]

\* The benchmark job has not started.
BenchIdle ==
    /\ bpc = "load"
    /\ g = {} /\ sub_g = {}
    /\ benchmarks_full = <<>> /\ benchmarks = <<>>
    /\ scalability_results = <<>>
    /\ size_idx = 1 /\ query_idx = 1
    /\ clock = 0
    /\ executions = <<>>

Init ==
    /\ pc = "read_csv"
    /\ input_file \in { "ok", "missing", "unparseable" }
    /\ columns \in { AllColumns } \cup { AllColumns \ {c} : c \in AllColumns }
    /\ df = <<>>
    /\ error = ""
    /\ tbox = {} /\ abox = {}
    /\ gender_map = EmptyMap /\ occupation_map = EmptyMap
    /\ country_map = EmptyMap /\ severity_map = EmptyMap
    /\ consultation_map = EmptyMap /\ stress_map = EmptyMap
    /\ medication_map = EmptyMap /\ diet_map = EmptyMap
    /\ smoking_map = EmptyMap /\ alcohol_map = EmptyMap
    /\ mental_health_counter = 1 /\ lifestyle_counter = 1
    /\ emitted = <<>>
    /\ tbox_ttl = NoFile /\ abox_ttl = NoFile
    /\ BenchIdle

\* -------------------------------------------------------- generator actions
loopVars ==
    << abox, gender_map, occupation_map, country_map, severity_map,
       consultation_map, stress_map, medication_map, diet_map, smoking_map,
       alcohol_map, mental_health_counter, lifestyle_counter, emitted, df >>

\* df = pd.read_csv(...): raises when the file is absent or cannot be parsed.
ReadCsv ==
    /\ pc = "read_csv"
    /\ IF input_file = "ok"
       THEN pc' = "build_tbox" /\ error' = error
       ELSE /\ pc' = "aborted"
            /\ error' = IF input_file = "missing" THEN "FileNotFoundError"
                        ELSE "ParserError"
    /\ UNCHANGED << input_file, columns, tbox, tbox_ttl, abox_ttl, loopVars,
                    benchVars >>

\* tbox = Graph() and the tbox.add calls.
BuildTBox ==
    /\ pc = "build_tbox"
    /\ tbox' = TBox
    /\ pc' = "save_tbox"
    /\ UNCHANGED << input_file, columns, error, tbox_ttl, abox_ttl, loopVars,
                    benchVars >>

\* tbox.serialize(destination='tbox.ttl'), then abox = Graph(), empty maps,
\* counters at 1.
SaveTBox ==
    /\ pc = "save_tbox"
    /\ tbox_ttl' = Serialized(tbox)
    /\ pc' = "rows"
    /\ UNCHANGED << input_file, columns, error, tbox, abox_ttl, loopVars,
                    benchVars >>

\* One iteration of "for index, row in df.iterrows()".
ProcessRow ==
    /\ pc = "rows"
    /\ columns = AllColumns
    /\ Len(df) < MaxRows
    /\ \E row \in Rows : \E st \in { RowStep(GenState, row) } :
         /\ abox' = st.abox
         /\ gender_map' = st.gender_map
         /\ occupation_map' = st.occupation_map
         /\ country_map' = st.country_map
         /\ severity_map' = st.severity_map
         /\ consultation_map' = st.consultation_map
         /\ stress_map' = st.stress_map
         /\ medication_map' = st.medication_map
         /\ diet_map' = st.diet_map
         /\ smoking_map' = st.smoking_map
         /\ alcohol_map' = st.alcohol_map
         /\ mental_health_counter' = st.mental_health_counter
         /\ lifestyle_counter' = st.lifestyle_counter
         /\ emitted' = Append(emitted, st.added)
         /\ df' = Append(df, row)
    /\ UNCHANGED << pc, input_file, columns, error, tbox, tbox_ttl, abox_ttl,
                    benchVars >>

\* Variant: the instance graph is flushed to abox.ttl when the lookup fails.
RowKeyError_FlushesABox ==
    /\ pc = "rows"
    /\ columns # AllColumns
    /\ Len(df) < MaxRows
    /\ pc' = "aborted"
    /\ error' = "KeyError"
    /\ abox_ttl' = Serialized(abox)
    /\ UNCHANGED << input_file, columns, tbox, tbox_ttl, loopVars, benchVars >>

\* The first iteration over a DataFrame that lacks a column: row[...] raises
\* KeyError and the interpreter exits.  What the interrupted iteration had
\* added to the graph in memory dies with the process and is written nowhere,
\* so the loop state is left as it was before the iteration.
RowKeyError ==
    /\ pc = "rows"
    /\ columns # AllColumns
    /\ Len(df) < MaxRows
    /\ pc' = "aborted"
    /\ error' = "KeyError"
    /\ UNCHANGED << input_file, columns, tbox, tbox_ttl, abox_ttl, loopVars,
                    benchVars >>

\* The loop is exhausted: abox.serialize(destination='abox.ttl') and the
\* closing print.
SaveABox ==
    /\ pc = "rows"
    /\ abox_ttl' = Serialized(abox)
    /\ pc' = "done"
    /\ UNCHANGED << input_file, columns, error, tbox, tbox_ttl, loopVars,
                    benchVars >>

Next == ReadCsv \/ BuildTBox \/ SaveTBox \/ ProcessRow \/ RowKeyError \/ SaveABox

Spec == Init /\ [][Next]_vars

\* ------------------------------------------------------ benchmark: queries
\* Names of the query catalog, in the insertion order of the dict.
QueryNames ==
    << "roll_up_sleep_by_country", "drill_down_work_by_country_gender",
       "slice_high_stress", "dice_medium_severity_australia" >>

\* Thresholds of the scalability loop.  The source has 10000, 25000, 50000
\* for a 50000-row dataset; they are scaled to the small User_ID range of the
\* model so that the first cuts rows off and the last keeps all of them.
sizes == << 1, 2, 3 >>

\* Ticks of time.time() that pass during one graph.query call.
QueryTicks == 1

\* Solutions of a basic graph pattern are tuples of bound nodes.  Join
\* extends every solution with the objects ?o of the pattern
\* (solution[k], p, ?o).
Join(solutions, graph, k, p) ==
    UNION { { Append(b, t[3]) : t \in { x \in graph : x[1] = b[k] /\ x[2] = p } } :
            b \in solutions }

\* ?user a mh:Person
PersonSolutions(graph) ==
    { <<t[1]>> : t \in { x \in graph :
                           x[2] = RDF_type /\ x[3] = Term("mh:Person") } }

\* FILTER (datatype(?x) = dt) on position k; datatype() of a non-literal is
\* an error, which removes the solution.
FilterDatatype(solutions, k, dt) ==
    { b \in solutions : Len(b[k]) = 3 /\ b[k][3] = dt }

\* roll_up_sleep_by_country: solutions <<user, measurement, countryUri,
\* sleepHours, country>>; one result row per group of ?country.
RollUpRows(graph) ==
    LET s1 == Join(PersonSolutions(graph), graph, 1, ex_hasMeasurement)
        s2 == Join(s1, graph, 1, Term("mh:hasCountry"))
        s3 == Join(s2, graph, 2, Term("mh:hasSleepHours"))
        s4 == Join(s3, graph, 3, SKOS_prefLabel)
        s5 == FilterDatatype(s4, 4, XSD_float)
    IN  { <<b[5]>> : b \in s5 }

\* drill_down_work_by_country_gender: solutions <<user, measurement,
\* countryUri, genderUri, workHours, country, gender>>; one result row per
\* group of (?country, ?gender).
DrillDownRows(graph) ==
    LET s1 == Join(PersonSolutions(graph), graph, 1, ex_hasMeasurement)
        s2 == Join(s1, graph, 1, Term("mh:hasCountry"))
        s3 == Join(s2, graph, 1, Term("mh:hasGender"))
        s4 == Join(s3, graph, 2, Term("mh:hasWorkHours"))
        s5 == Join(s4, graph, 3, SKOS_prefLabel)
        s6 == Join(s5, graph, 4, SKOS_prefLabel)
        s7 == FilterDatatype(s6, 5, XSD_integer)
    IN  { <<b[6], b[7]>> : b \in s7 }

\* Variant: the pattern on the stress label is left out.
SliceRows_AnyStress(graph) ==
    LET s1 == Join(PersonSolutions(graph), graph, 1, Term("mh:hasMentalHealth"))
        s2 == Join(s1, graph, 1, Term("mh:hasCountry"))
        s3 == Join(s2, graph, 1, ex_hasMeasurement)
        s4 == Join(s3, graph, 2, Term("mh:hasStressLevel"))
        s6 == Join(s4, graph, 4, Term("mh:hasSleepHours"))
        s7 == Join(s6, graph, 3, SKOS_prefLabel)
    IN  FilterDatatype(s7, 6, XSD_float)

\* slice_high_stress: solutions <<user, mh, countryUri, measurement,
\* stressUri, sleepHours, country>>; one result row per solution.
SliceRows(graph) ==
    LET s1 == Join(PersonSolutions(graph), graph, 1, Term("mh:hasMentalHealth"))
        s2 == Join(s1, graph, 1, Term("mh:hasCountry"))
        s3 == Join(s2, graph, 1, ex_hasMeasurement)
        s4 == Join(s3, graph, 2, Term("mh:hasStressLevel"))
        s5 == { b \in s4 :
                  <<b[5], SKOS_prefLabel, PlainLiteral("High")>> \in graph }
        s6 == Join(s5, graph, 4, Term("mh:hasSleepHours"))
        s7 == Join(s6, graph, 3, SKOS_prefLabel)
    IN  FilterDatatype(s7, 6, XSD_float)

\* dice_medium_severity_australia: solutions <<user, mh, countryUri,
\* measurement, age, severityUri, workHours>>; one result row per solution.
DiceRows(graph) ==
    LET s1 == Join(PersonSolutions(graph), graph, 1, Term("mh:hasMentalHealth"))
        s2 == Join(s1, graph, 1, Term("mh:hasCountry"))
        s3 == Join(s2, graph, 1, ex_hasMeasurement)
        s4 == Join(s3, graph, 1, Term("mh:hasAge"))
        s5 == Join(s4, graph, 2, Term("mh:hasSeverity"))
        s6 == { b \in s5 :
                  /\ <<b[6], SKOS_prefLabel, PlainLiteral("Medium")>> \in graph
                  /\ <<b[3], SKOS_prefLabel, PlainLiteral("Australia")>> \in graph }
        s7 == Join(s6, graph, 4, Term("mh:hasWorkHours"))
    IN  FilterDatatype(FilterDatatype(s7, 5, XSD_integer), 7, XSD_integer)

\* graph.query(queries[name]): the result rows.  The queries use the skos:
\* prefix without declaring it; it is resolved from the namespaces every
\* rdflib Graph binds by default.
QueryResult(graph, name) ==
    CASE name = "roll_up_sleep_by_country" -> RollUpRows(graph)
      [] name = "drill_down_work_by_country_gender" -> DrillDownRows(graph)
      [] name = "slice_high_stress" -> SliceRows(graph)
      [] name = "dice_medium_severity_australia" -> DiceRows(graph)

\* measure_query_time: the entry for one execution started at start_time.
measure_query_time(graph, query_name, start_time) ==
    LET result == QueryResult(graph, query_name)
        end_time == start_time + QueryTicks
    IN  [ query_name |-> query_name,
          execution_time |-> end_time - start_time,
          row_count |-> Cardinality(result) ]

\* URI segments the subsampler keeps unconditionally.
DimensionSegments ==
    { "gender", "occupation", "country", "severity", "consultation", "stress",
      "medication", "diet", "smoking", "alcohol" }

\* "seg/" in str(s).  The string of an instance URI is the namespace followed
\* by kind/number, the string of a vocabulary term the namespace followed by
\* a name without "/"; neither namespace contains one of the tested segments,
\* so the test succeeds exactly on the instance URIs of that kind.
HasSegment(s, seg) == s[1] = seg

\* int(str(s).split('/')[-1]) of an instance URI.
TrailingInt(s) == s[2]

\* Variant: the comparison with the threshold is strict.
create_subsampled_graph_Strict(graph, max_user_id) ==
    { t \in graph :
        IF HasSegment(t[1], "user") /\ TrailingInt(t[1]) < max_user_id
        THEN TRUE
        ELSE \E seg \in DimensionSegments : HasSegment(t[1], seg) }

\* Variant: the per-row fact entities are kept along with the dimensions.
create_subsampled_graph_KeepsFacts(graph, max_user_id) ==
    { t \in graph :
        IF HasSegment(t[1], "user") /\ TrailingInt(t[1]) <= max_user_id
        THEN TRUE
        ELSE \E seg \in DimensionSegments \cup { "measurement", "mental_health" } :
                 HasSegment(t[1], seg) }

\* create_subsampled_graph(graph, max_user_id)
create_subsampled_graph(graph, max_user_id) ==
    { t \in graph :
        IF HasSegment(t[1], "user") /\ TrailingInt(t[1]) <= max_user_id
        THEN TRUE
        ELSE \E seg \in DimensionSegments : HasSegment(t[1], seg) }

\* ------------------------------------------------------- benchmark actions
\* g.parse("tbox.ttl"); g.parse("abox.ttl"): raises when a file is absent.
LoadGraph ==
    /\ bpc = "load"
    /\ IF tbox_ttl.written /\ abox_ttl.written
       THEN g' = tbox_ttl.triples \cup abox_ttl.triples /\ bpc' = "full"
       ELSE g' = g /\ bpc' = "aborted"
    /\ UNCHANGED << genVars, sub_g, benchmarks_full, benchmarks,
                    scalability_results, size_idx, query_idx, clock,
                    executions >>

\* Variant: a query is executed a second time before its entry is recorded.
RunFullQuery_Retry ==
    /\ bpc = "full"
    /\ query_idx <= Len(QueryNames)
    /\ LET first == measure_query_time(g, QueryNames[query_idx], clock)
           b == measure_query_time(g, QueryNames[query_idx],
                                   clock + first.execution_time)
           e == [ size |-> 0, query_name |-> b.query_name,
                  row_count |-> b.row_count ]
       IN  /\ benchmarks_full' = Append(benchmarks_full, b)
           /\ clock' = clock + first.execution_time + b.execution_time
           /\ executions' = Append(Append(executions, e), e)
    /\ query_idx' = query_idx + 1
    /\ UNCHANGED << genVars, bpc, g, sub_g, benchmarks, scalability_results,
                    size_idx >>

\* One iteration of the loop over queries.items() on the full graph.
RunFullQuery ==
    /\ bpc = "full"
    /\ query_idx <= Len(QueryNames)
    /\ \E b \in { measure_query_time(g, QueryNames[query_idx], clock) } :
           /\ benchmarks_full' = Append(benchmarks_full, b)
           /\ clock' = clock + b.execution_time
           /\ executions' = Append(executions,
                  [ size |-> 0, query_name |-> b.query_name,
                    row_count |-> b.row_count ])
    /\ query_idx' = query_idx + 1
    /\ UNCHANGED << genVars, bpc, g, sub_g, benchmarks, scalability_results,
                    size_idx >>

\* The full-dataset report is printed; the scalability loop starts.
ReportFull ==
    /\ bpc = "full"
    /\ query_idx > Len(QueryNames)
    /\ bpc' = "sizes"
    /\ size_idx' = 1
    /\ UNCHANGED << genVars, g, sub_g, benchmarks_full, benchmarks,
                    scalability_results, query_idx, clock, executions >>

\* for size in sizes: sub_g = create_subsampled_graph(g, size); benchmarks = []
Subsample ==
    /\ bpc = "sizes"
    /\ size_idx <= Len(sizes)
    /\ sub_g' = create_subsampled_graph(g, sizes[size_idx])
    /\ benchmarks' = <<>>
    /\ query_idx' = 1
    /\ bpc' = "sub"
    /\ UNCHANGED << genVars, g, benchmarks_full, scalability_results, size_idx,
                    clock, executions >>

\* One iteration of the loop over queries.items() on the subsampled graph.
RunSubQuery ==
    /\ bpc = "sub"
    /\ query_idx <= Len(QueryNames)
    /\ \E b \in { measure_query_time(sub_g, QueryNames[query_idx], clock) } :
           /\ benchmarks' = Append(benchmarks, b)
           /\ clock' = clock + b.execution_time
           /\ executions' = Append(executions,
                  [ size |-> sizes[size_idx], query_name |-> b.query_name,
                    row_count |-> b.row_count ])
    /\ query_idx' = query_idx + 1
    /\ UNCHANGED << genVars, bpc, g, sub_g, benchmarks_full,
                    scalability_results, size_idx >>

\* scalability_results[size] = benchmarks
StoreSize ==
    /\ bpc = "sub"
    /\ query_idx > Len(QueryNames)
    /\ scalability_results' =
           Append(scalability_results,
                  [ size |-> sizes[size_idx], benchmarks |-> benchmarks ])
    /\ size_idx' = size_idx + 1
    /\ bpc' = "sizes"
    /\ UNCHANGED << genVars, g, sub_g, benchmarks_full, benchmarks, query_idx,
                    clock, executions >>

\* The scalability report is printed and the two figures are saved.
Report ==
    /\ bpc = "sizes"
    /\ size_idx > Len(sizes)
    /\ bpc' = "done"
    /\ UNCHANGED << genVars, g, sub_g, benchmarks_full, benchmarks,
                    scalability_results, size_idx, query_idx, clock,
                    executions >>

\* Datasets whose generated files the benchmark job may find on disk.
BenchDatasets == UNION { [ 1..n -> Rows ] : n \in 0..MaxBenchRows }

\* The benchmark job starts after a generation run over dataset ds has ended:
\* completed, or aborted in the row loop when a column is missing.
InitBench ==
    \E ds \in BenchDatasets : \E completed \in BOOLEAN :
        \E st \in { IF completed THEN Generate(ds) ELSE GenStart } :
            /\ completed \/ ds = <<>>
            /\ pc = IF completed THEN "done" ELSE "aborted"
            /\ input_file = "ok"
            /\ columns = IF completed THEN AllColumns
                         ELSE AllColumns \ { "Age" }
            /\ df = ds
            /\ error = IF completed THEN "" ELSE "KeyError"
            /\ tbox = TBox /\ abox = st.abox
            /\ gender_map = st.gender_map
            /\ occupation_map = st.occupation_map
            /\ country_map = st.country_map
            /\ severity_map = st.severity_map
            /\ consultation_map = st.consultation_map
            /\ stress_map = st.stress_map
            /\ medication_map = st.medication_map
            /\ diet_map = st.diet_map
            /\ smoking_map = st.smoking_map
            /\ alcohol_map = st.alcohol_map
            /\ mental_health_counter = st.mental_health_counter
            /\ lifestyle_counter = st.lifestyle_counter
            /\ emitted = [ i \in 1..Len(ds) |-> Generate(SubSeq(ds, 1, i)).added ]
            /\ tbox_ttl = Serialized(TBox)
            /\ abox_ttl = IF completed THEN Serialized(st.abox) ELSE NoFile
            /\ BenchIdle

NextBench ==
    \/ LoadGraph \/ RunFullQuery \/ ReportFull \/ Subsample \/ RunSubQuery
    \/ StoreSize \/ Report

SpecBench == InitBench /\ [][NextBench]_vars

\* ---------------------------------------------- vocabulary of the claims
\* The ten normalized dimensions: URI segment, CSV column, class, link
\* property, and the kind of entity the link starts from.
Dimensions ==
    { [ kind |-> "gender", col |-> "Gender", class |-> "mh:Gender",
        prop |-> "mh:hasGender", parent |-> "user" ],
      [ kind |-> "occupation", col |-> "Occupation", class |-> "mh:Occupation",
        prop |-> "mh:hasOccupation", parent |-> "user" ],
      [ kind |-> "country", col |-> "Country", class |-> "mh:Country",
        prop |-> "mh:hasCountry", parent |-> "user" ],
      [ kind |-> "severity", col |-> "Severity", class |-> "mh:Severity",
        prop |-> "mh:hasSeverity", parent |-> "mental_health" ],
      [ kind |-> "consultation", col |-> "Consultation_History",
        class |-> "mh:Consultation", prop |-> "mh:hasConsultationHistory",
        parent |-> "mental_health" ],
      [ kind |-> "stress", col |-> "Stress_Level", class |-> "mh:StressLevel",
        prop |-> "mh:hasStressLevel", parent |-> "mental_health" ],
      [ kind |-> "medication", col |-> "Medication_Usage",
        class |-> "mh:Medication", prop |-> "mh:hasMedicationUsage",
        parent |-> "mental_health" ],
      [ kind |-> "diet", col |-> "Diet_Quality", class |-> "mh:DietQuality",
        prop |-> "mh:hasDietQuality", parent |-> "lifestyle" ],
      [ kind |-> "smoking", col |-> "Smoking_Habit", class |-> "mh:SmokingHabit",
        prop |-> "mh:hasSmokingHabit", parent |-> "lifestyle" ],
      [ kind |-> "alcohol", col |-> "Alcohol_Consumption",
        class |-> "mh:AlcoholConsumption", prop |-> "mh:hasAlcoholConsumption",
        parent |-> "lifestyle" ] }

\* The mapping table of a dimension in the current state.
MapOf(kind) ==
    CASE kind = "gender" -> gender_map
      [] kind = "occupation" -> occupation_map
      [] kind = "country" -> country_map
      [] kind = "severity" -> severity_map
      [] kind = "consultation" -> consultation_map
      [] kind = "stress" -> stress_map
      [] kind = "medication" -> medication_map
      [] kind = "diet" -> diet_map
      [] kind = "smoking" -> smoking_map
      [] kind = "alcohol" -> alcohol_map

\* Value of row i in the column of dimension d.
ValueAt(i, d) == df[i][d.col]

\* Identifiers of the dimension entities row i was linked to in dimension d.
LinkedIds(i, d) ==
    { t[3][2] : t \in { x \in emitted[i] : x[2] = Term(d.prop) } }

\* Row i is the first row carrying its value in dimension d.
FirstOccurrence(i, d) == \A j \in 1..(i - 1) : ValueAt(j, d) # ValueAt(i, d)

\* Index of the first row carrying value v in dimension d.
FirstIndex(v, d) ==
    CHOOSE i \in 1..Len(df) :
        ValueAt(i, d) = v /\ \A j \in 1..(i - 1) : ValueAt(j, d) # v

\* Values seen so far in the column of dimension d.
SeenValues(d) == { ValueAt(i, d) : i \in 1..Len(df) }

\* The entity a link of row i in dimension d starts from: the row's Person,
\* or the MentalHealth / Lifestyle instance created by the i-th iteration.
ParentOf(i, d) ==
    IF d.parent = "user" THEN U("user", df[i].User_ID) ELSE U(d.parent, i)

\* Subjects of the instance graph typed with a class.
InstancesOf(graph, class) ==
    { t[1] : t \in { x \in graph : x[2] = RDF_type /\ x[3] = Term(class) } }

\* ----------------------------------------------------------------- claims
\* C1: in every dimension and after any prefix of the rows, each row is
\* linked to exactly one identifier, rows carrying the same value are linked
\* to the same identifier, and that identifier is the one the mapping table
\* holds now (an identifier once assigned to a value never changed since).
C1_SameValueSameId ==
    \A d \in Dimensions :
        /\ \A i \in 1..Len(df) :
               LinkedIds(i, d) = { MapOf(d.kind)[ValueAt(i, d)] }
        /\ \A j \in 1..Len(df) : \A i \in 1..(j - 1) :
               ValueAt(i, d) = ValueAt(j, d) => LinkedIds(i, d) = LinkedIds(j, d)

\* A value came back after another value was seen in between.
C1_Witness ==
    /\ Len(df) = 3
    /\ df[1].Country = df[3].Country
    /\ df[2].Country # df[1].Country
    /\ df[1].Stress_Level = df[2].Stress_Level

\* C2: in every dimension the identifiers of the distinct values seen so
\* far are pairwise distinct, follow the order of first occurrence, and are
\* exactly 1..k for k distinct values.
C2_DenseFirstSeenIds ==
    \A d \in Dimensions :
        LET m == MapOf(d.kind)
        IN  /\ DOMAIN m = SeenValues(d)
            /\ \A v, w \in DOMAIN m : v # w => m[v] # m[w]
            /\ { m[v] : v \in DOMAIN m } = 1..Cardinality(SeenValues(d))
            /\ \A v, w \in DOMAIN m :
                   m[v] < m[w] <=> FirstIndex(v, d) < FirstIndex(w, d)

\* Countries USA, India, USA gave USA = 1 and India = 2, with two persons
\* pointing to country/1 and one to country/2.
C2_Witness ==
    /\ Len(df) = 3
    /\ df[1].Country = "USA" /\ df[2].Country = "India" /\ df[3].Country = "USA"
    /\ country_map["USA"] = 1 /\ country_map["India"] = 2
    /\ LinkedIds(1, [ prop |-> "mh:hasCountry" ]) = {1}
    /\ LinkedIds(2, [ prop |-> "mh:hasCountry" ]) = {2}
    /\ LinkedIds(3, [ prop |-> "mh:hasCountry" ]) = {1}

\* C4: the type and label triples of a dimension entity are emitted at the
\* first row carrying its value and at no other row, and every row emits the
\* link from its parent entity to the entity labelled with the row's value.
C4_EntityOnceLinkAlways ==
    \A d \in Dimensions : \A i \in 1..Len(df) :
        LET v == ValueAt(i, d)
            e == U(d.kind, MapOf(d.kind)[v])
            typeT == <<e, RDF_type, Term(d.class)>>
            labelT == <<e, SKOS_prefLabel, PlainLiteral(v)>>
            described == { t \in emitted[i] :
                             t[1][1] = d.kind /\ t[2] \in {RDF_type, SKOS_prefLabel} }
        IN  /\ described = IF FirstOccurrence(i, d) THEN {typeT, labelT} ELSE {}
            /\ <<ParentOf(i, d), Term(d.prop), e>> \in emitted[i]
            /\ labelT \in abox

\* A repeated value: its row emitted the link but no entity description.
C4_Witness ==
    /\ Len(df) = 2
    /\ df[1].Severity = df[2].Severity
    /\ df[1].Country # df[2].Country
    /\ <<U("mental_health", 2), Term("mh:hasSeverity"), U("severity", 1)>>
           \in emitted[2]
    /\ <<U("severity", 1), RDF_type, Term("mh:Severity")>> \notin emitted[2]

\* C5: every row creates a MentalHealth and a Lifestyle entity no earlier row
\* created; after n rows there are n of each, and each is linked from exactly
\* the Person of the row that created it.
C5_FreshPerRowEntities ==
    /\ Cardinality(InstancesOf(abox, "mh:MentalHealth")) = Len(df)
    /\ Cardinality(InstancesOf(abox, "mh:Lifestyle")) = Len(df)
    /\ \A i \in 1..Len(df) :
           LET mhs == InstancesOf(emitted[i], "mh:MentalHealth")
               lss == InstancesOf(emitted[i], "mh:Lifestyle")
           IN  /\ Cardinality(mhs) = 1 /\ Cardinality(lss) = 1
               /\ \A j \in 1..(i - 1) :
                      /\ mhs \cap InstancesOf(emitted[j], "mh:MentalHealth") = {}
                      /\ lss \cap InstancesOf(emitted[j], "mh:Lifestyle") = {}
               /\ \A e \in mhs :
                      { t[1] : t \in { x \in abox :
                            x[2] = Term("mh:hasMentalHealth") /\ x[3] = e } }
                        = { U("user", df[i].User_ID) }
               /\ \A e \in lss :
                      { t[1] : t \in { x \in abox :
                            x[2] = Term("mh:hasLifestyle") /\ x[3] = e } }
                        = { U("user", df[i].User_ID) }

\* Two rows equal in every column still produced two entities of each kind.
C5_Witness ==
    /\ Len(df) = 2
    /\ df[1] = df[2]
    /\ Cardinality(InstancesOf(abox, "mh:MentalHealth")) = 2
    /\ Cardinality(InstancesOf(abox, "mh:Lifestyle")) = 2

\* Triples of a graph whose subject is one of the given entities.
TriplesAbout(graph, entities) == { t \in graph : t[1] \in entities }

\* Person entities of the rows whose user identifier is at most T.
PersonsUpTo(T) ==
    { U("user", df[i].User_ID) : i \in { j \in 1..Len(df) : df[j].User_ID <= T } }

\* Dimension entities of a graph: the instances of the ten dimension classes.
DimensionEntities(graph) ==
    UNION { InstancesOf(graph, d.class) : d \in Dimensions }

\* A graph is the subsample of the loaded graph at threshold T: its
\* Person-rooted triples are those of the rows with identifier <= T, its
\* dimension triples are all those of the loaded graph, and it holds nothing
\* else.
IsSubsampleAt(graph, T) ==
    /\ TriplesAbout(graph, InstancesOf(g, "mh:Person"))
         = TriplesAbout(g, PersonsUpTo(T))
    /\ TriplesAbout(graph, DimensionEntities(g))
         = TriplesAbout(g, DimensionEntities(g))
    /\ graph = TriplesAbout(g, PersonsUpTo(T) \cup DimensionEntities(g))

\* C3: for every graph loaded from a generation run (looked at once, when
\* the load has completed) and every threshold T, create_subsampled_graph
\* returns exactly the Person-rooted triples of the rows with identifier <= T
\* together with all dimension-entity triples; the graph the scalability
\* loop holds is that subsample at its size.
C3_SubsampleContents ==
    /\ bpc = "full" /\ executions = <<>> =>
           \A T \in 0..(MaxUserId + 1) :
               IsSubsampleAt(create_subsampled_graph(g, T), T)
    /\ bpc = "sub" => IsSubsampleAt(sub_g, sizes[size_idx])

\* The loop subsampled at threshold 1 a graph with a person below and a
\* person above the threshold.
C3_Witness ==
    /\ bpc = "sub"
    /\ sizes[size_idx] = 1
    /\ Len(df) = 2
    /\ df[1].User_ID = 2 /\ df[2].User_ID = 1
    /\ df[1].Country # df[2].Country
    /\ U("user", 1) \in InstancesOf(sub_g, "mh:Person")
    /\ U("user", 2) \notin InstancesOf(sub_g, "mh:Person")
    /\ Cardinality(InstancesOf(sub_g, "mh:Country")) = 2

\* The (size, query) pair of the k-th execution of a complete run: the
\* catalog on the full graph (size 0), then on each subsample in the order
\* of sizes.
ExpectedExecution(k) ==
    LET nq == Len(QueryNames)
    IN  [ size |-> IF k <= nq THEN 0 ELSE sizes[(k - 1) \div nq],
          query_name |-> QueryNames[((k - 1) % nq) + 1] ]

\* A recorded entry is the (name, duration, row-count) of an execution.
RecordsExecution(entry, k) ==
    /\ DOMAIN entry = { "query_name", "execution_time", "row_count" }
    /\ entry.query_name = executions[k].query_name
    /\ entry.row_count = executions[k].row_count
    /\ entry.execution_time >= 0

\* C10: the executions made so far are a prefix of: the four queries once on
\* the full graph, then once on each of the three subsamples in the order of
\* sizes; a complete run made all 16, none twice, and recorded one entry per
\* execution.
C10_EachQueryOncePerGraph ==
    LET nq == Len(QueryNames)
        total == nq * (1 + Len(sizes))
    IN  /\ Len(executions) <= total
        /\ \A k \in 1..Len(executions) :
               /\ executions[k].size = ExpectedExecution(k).size
               /\ executions[k].query_name = ExpectedExecution(k).query_name
        /\ bpc = "done" =>
               /\ Len(executions) = total
               /\ Len(benchmarks_full) = nq
               /\ \A q \in 1..nq : RecordsExecution(benchmarks_full[q], q)
               /\ Len(scalability_results) = Len(sizes)
               /\ \A n \in 1..Len(sizes) :
                      /\ scalability_results[n].size = sizes[n]
                      /\ Len(scalability_results[n].benchmarks) = nq
                      /\ \A q \in 1..nq :
                             RecordsExecution(scalability_results[n].benchmarks[q],
                                              n * nq + q)

\* A benchmark run over a two-row graph completed, its slice query having
\* returned rows on the full graph.
C10_Witness ==
    /\ bpc = "done"
    /\ Len(df) = 2
    /\ Len(executions) = 16
    /\ executions[3].row_count >= 1
    /\ benchmarks_full[3].row_count = executions[3].row_count

\* Objects of the triples of a graph with subject s and predicate p.
Objects(graph, s, p) == { t[3] : t \in { x \in graph : x[1] = s /\ x[2] = p } }

\* Subjects of the triples of a graph with predicate p and object o.
Subjects(graph, p, o) == { t[1] : t \in { x \in graph : x[2] = p /\ x[3] = o } }

\* An entity holds a label (rdfs:label or skos:prefLabel).
HasLabel(graph, e) ==
    Objects(graph, e, RDFS_label) \cup Objects(graph, e, SKOS_prefLabel) # {}

\* Link properties of the MentalHealth and of the Lifestyle instances.
MentalHealthLinks ==
    { "mh:hasSeverity", "mh:hasConsultationHistory", "mh:hasStressLevel",
      "mh:hasMedicationUsage" }
LifestyleLinks ==
    { "mh:hasDietQuality", "mh:hasSmokingHabit", "mh:hasAlcoholConsumption" }

\* An entity has exactly one link for each of the given properties.
HasLinks(graph, e, props) ==
    \A p \in props : Cardinality(Objects(graph, e, Term(p))) = 1

\* The triples about a MentalHealth instance hold the given condition as the
\* only label, and one link per MentalHealth property.
IsLabelledMentalHealth(about, e, condition) ==
    /\ <<e, RDF_type, Term("mh:MentalHealth")>> \in about
    /\ Objects(about, e, RDFS_label) = { PlainLiteral(condition) }
    /\ HasLinks(about, e, MentalHealthLinks)

\* The triples about a Lifestyle instance hold its type and one link per
\* Lifestyle property, and nothing else (so no label).
IsUnlabelledLifestyle(about, e) ==
    /\ ~HasLabel(about, e)
    /\ HasLinks(about, e, LifestyleLinks)
    /\ { t[2] : t \in about } = { RDF_type } \cup { Term(p) : p \in LifestyleLinks }

\* C6 as stated: every MentalHealth and every Lifestyle instance holds a
\* label in addition to its links to the dimension entities.
C6_EveryInstanceLabelled ==
    /\ \A e \in InstancesOf(abox, "mh:MentalHealth") :
           HasLabel(abox, e) /\ HasLinks(abox, e, MentalHealthLinks)
    /\ \A e \in InstancesOf(abox, "mh:Lifestyle") :
           HasLabel(abox, e) /\ HasLinks(abox, e, LifestyleLinks)

\* C6 amended: every MentalHealth instance holds a label (the row's
\* condition) and its four links; every Lifestyle instance holds its three
\* links and its type, and no label.
C6_MentalHealthLabelledOnly ==
    /\ InstancesOf(abox, "mh:MentalHealth")
         = { U("mental_health", i) : i \in 1..Len(df) }
    /\ \A i \in 1..Len(df) :
           IsLabelledMentalHealth(TriplesAbout(abox, { U("mental_health", i) }),
                                  U("mental_health", i),
                                  df[i].Mental_Health_Condition)
    /\ \A e \in InstancesOf(abox, "mh:Lifestyle") :
           IsUnlabelledLifestyle(TriplesAbout(abox, {e}), e)

\* Rows with different conditions produced differently labelled instances
\* and unlabelled Lifestyle instances.
C6_Witness ==
    /\ Len(df) = 2
    /\ df[1].Mental_Health_Condition # df[2].Mental_Health_Condition
    /\ Objects(abox, U("mental_health", 2), RDFS_label)
         = { PlainLiteral(df[2].Mental_Health_Condition) }
    /\ U("lifestyle", 2) \in InstancesOf(abox, "mh:Lifestyle")
    /\ ~HasLabel(abox, U("lifestyle", 2))

\* Fact properties of a Measurement.
MeasurementFacts ==
    { "mh:hasSleepHours", "mh:hasWorkHours", "mh:hasPhysicalActivityHours",
      "mh:hasSocialMediaUsage" }

\* n Person and n Measurement entities, each Measurement with exactly one
\* value per fact and linked from exactly one Person.
OnePersonOneMeasurementPerRow ==
    /\ Cardinality(InstancesOf(abox, "mh:Person")) = Len(df)
    /\ Cardinality(InstancesOf(abox, "mh:Measurement")) = Len(df)
    /\ \A m \in InstancesOf(abox, "mh:Measurement") :
           /\ \A p \in MeasurementFacts :
                  Cardinality(Objects(abox, m, Term(p))) = 1
           /\ Cardinality({ t \in abox : t[1] = m /\ IsLiteral(t[3]) }) = 4
           /\ Cardinality(Subjects(abox, ex_hasMeasurement, m)) = 1

\* The rows iterated so far carry pairwise distinct user identifiers.
DistinctUserIds ==
    \A i, j \in 1..Len(df) : i # j => df[i].User_ID # df[j].User_ID

\* C7 as stated: for every sequence of n rows the graph holds exactly n
\* Person and n Measurement entities, each Measurement with exactly four
\* facts and linked from exactly one Person.
C7_OnePerRow == OnePersonOneMeasurementPerRow

\* C7 amended: the same, for every sequence of rows whose user identifiers
\* are pairwise distinct; in general there is one Person and one Measurement
\* per distinct user identifier, each Measurement linked from the Person of
\* the same identifier.
C7_OnePerDistinctUser ==
    /\ DistinctUserIds => OnePersonOneMeasurementPerRow
    /\ InstancesOf(abox, "mh:Person")
         = { U("user", df[i].User_ID) : i \in 1..Len(df) }
    /\ InstancesOf(abox, "mh:Measurement")
         = { U("measurement", df[i].User_ID) : i \in 1..Len(df) }
    /\ \A m \in InstancesOf(abox, "mh:Measurement") :
           Subjects(abox, ex_hasMeasurement, m) = { U("user", m[2]) }

\* Two rows with different user identifiers and measurements were generated.
C7_Witness ==
    /\ Len(df) = 2
    /\ DistinctUserIds
    /\ Cardinality(InstancesOf(abox, "mh:Measurement")) = 2
    /\ df[1].Sleep_Hours # df[2].Sleep_Hours

\* C8: a row with a malformed or missing numeric field makes the run fail
\* with a DataFormatError, and no literal is built from the bad value.
C8_BadNumericFails ==
    \A i \in 1..Len(df) :
        BadNumeric(df[i]) =>
            /\ error = "DataFormatError"
            /\ \A t \in emitted[i] :
                   IsLiteral(t[3]) => WellFormed(t[3][2], Datatype(t[3]))

\* C9 as stated: a run that aborted has written neither tbox.ttl nor
\* abox.ttl.
C9_AbortLeavesNoOutput ==
    pc = "aborted" => ~tbox_ttl.written /\ ~abox_ttl.written

\* C9 amended: a run that aborted has not written abox.ttl; it has written
\* tbox.ttl (the complete schema) exactly when it aborted inside the row loop
\* on a missing column, and not when the input file was missing or could not
\* be parsed.
C9_AbortLeavesNoABox ==
    pc = "aborted" =>
        /\ ~abox_ttl.written
        /\ tbox_ttl.written <=> error = "KeyError"
        /\ error \in { "FileNotFoundError", "ParserError" } => ~tbox_ttl.written
        /\ tbox_ttl.written => tbox_ttl.triples = TBox

\* A run aborted in the row loop on a missing column.
C9_Witness ==
    /\ pc = "aborted"
    /\ error = "KeyError"
    /\ "Age" \notin columns
    /\ tbox_ttl.written

\* The columns ?user ?country ?sleepHours selected by slice_high_stress.
SliceProjection(solutions) == { <<b[1], b[7], b[6]>> : b \in solutions }

\* Indices of the input rows whose stress level is "High".
HighStressRows == { i \in 1..Len(df) : df[i].Stress_Level = "High" }

\* The result row input row i stands for: its user, its country label and
\* its sleep-hours value.
ExpectedSliceRow(i) ==
    << U("user", df[i].User_ID), PlainLiteral(df[i].Country),
       TypedLiteral(df[i].Sleep_Hours, XSD_float) >>

\* Once slice_high_stress has run on the full graph, its result has one row
\* per "High" input row and no other, each carrying that row's user, country
\* label and sleep hours, and the recorded row count is their number.
SliceMatchesHighRows ==
    Len(executions) = 3 =>
        /\ executions[3].query_name = "slice_high_stress"
        /\ executions[3].row_count = Cardinality(HighStressRows)
        /\ Cardinality(SliceRows(g)) = Cardinality(HighStressRows)
        /\ SliceProjection(SliceRows(g))
             = { ExpectedSliceRow(i) : i \in HighStressRows }

\* C11 as stated: on every generated graph slice_high_stress returns exactly
\* one row for each input row with stress level "High" and none for any
\* other row, each carrying that row's user, country label and sleep hours.
C11_SliceOnePerHighRow == SliceMatchesHighRows

\* C11 amended: the same, on every graph generated from rows whose user
\* identifiers are pairwise distinct.
C11_SliceOnePerHighRowDistinctUsers == DistinctUserIds => SliceMatchesHighRows

\* Two rows of different users, only one of them "High": the slice query
\* returned exactly one row.
C11_Witness ==
    /\ Len(executions) = 3
    /\ Len(df) = 2
    /\ DistinctUserIds
    /\ Cardinality(HighStressRows) = 1
    /\ executions[3].row_count = 1
    /\ SliceProjection(SliceRows(g)) = { ExpectedSliceRow(i) : i \in HighStressRows }

\* Measurement, MentalHealth and Lifestyle entities of a graph.
FactEntities(graph) ==
    InstancesOf(graph, "mh:Measurement") \cup InstancesOf(graph, "mh:MentalHealth")
    \cup InstancesOf(graph, "mh:Lifestyle")

\* A subsample of the loaded graph holds no triple about a Measurement,
\* MentalHealth or Lifestyle entity and no schema triple, and every query of
\* the catalog has an empty result on it.
HoldsNoFacts(sub) ==
    /\ TriplesAbout(sub, FactEntities(g)) = {}
    /\ sub \cap tbox_ttl.triples = {}
    /\ \A q \in 1..Len(QueryNames) : QueryResult(sub, QueryNames[q]) = {}

\* C12: for every threshold the subsample of a loaded graph (looked at once,
\* when the load has completed) holds no Measurement, MentalHealth, Lifestyle
\* or schema triple and gives every catalog query an empty result; so does the
\* graph the scalability loop holds, and every execution on a subsample
\* recorded zero rows.
C12_SubsampleQueriesEmpty ==
    /\ bpc = "full" /\ executions = <<>> =>
           \A T \in 0..(MaxUserId + 1) :
               HoldsNoFacts(create_subsampled_graph(g, T))
    /\ bpc = "sub" => HoldsNoFacts(sub_g)
    /\ \A k \in 1..Len(executions) :
           executions[k].size > 0 => executions[k].row_count = 0

\* A complete run over two rows: every query returned rows on the full graph,
\* and none on the subsample that keeps both persons.
C12_Witness ==
    /\ bpc = "done"
    /\ Len(df) = 2
    /\ \A k \in 1..4 : executions[k].row_count >= 1
    /\ \A k \in 5..16 : executions[k].row_count = 0
    /\ Cardinality(InstancesOf(sub_g, "mh:Person")) = 2
    /\ FactEntities(g) # {}

=============================================================================
